---------------------------- MODULE Spec2Model ----------------------------
(***************************************************************************)
(* A model of modulegraph2/reportbuilder.py: the three presentation        *)
(* callbacks (format_node, format_edge, group_nodes) and the ReportBuilder *)
(* class (__init__, make_graph, print_graph, output_graph, render_graph).  *)
(*                                                                         *)
(* Python values are modelled as follows.  A list object lives in `heap`   *)
(* (id -> contents) when its identity matters (the excludes list, which    *)
(* __init__ may alias and extend); every other list is a sequence.  A dict *)
(* is a function from its keys to its values.  An attribute that may be    *)
(* None is a record with an is_none field; a list argument that is None is *)
(* the reference 0.                                                        *)
(***************************************************************************)
EXTENDS Integers, Sequences, FiniteSets, TLC

VARIABLES
    heap,       \* Python list objects that may be aliased: id -> contents
    builders,   \* the constructed ReportBuilder instances (their attributes)
    given,      \* per builder: contents of the excludes argument when passed
    sys_path,   \* the process-wide sys.path
    dest,       \* the destination file on disk: [exists, content]
    last,       \* what the last call did: streams, collaborators, outcome
    input,      \* arguments drawn for a presentation callback
    output      \* the callback's return value, once it was applied

vars == <<heap, builders, given, sys_path, dest, last, input, output>>

-----------------------------------------------------------------------------
(* Bounds of the model *)

MaxEntries == 2    \* modules + scripts + distributions entries of a builder
MaxBuilders == 2   \* ReportBuilder constructions in a run
MaxIdLen == 3      \* characters of a node identifier
MaxFacts == 2      \* dependency facts of each optionality on an edge
MaxRoots == 2      \* nodes in graph.roots()
MaxNodes == 4      \* nodes yielded by graph.iter_graph()

-----------------------------------------------------------------------------
(* Generic helpers *)

SeqsUpTo(S, n) == UNION {[1..k -> S] : k \in 0..n}

IsPrefix(p, s) == Len(p) <= Len(s) /\ SubSeq(s, 1, Len(p)) = p

Range(s) == {s[i] : i \in DOMAIN s}

Reverse(s) == [i \in 1..Len(s) |-> s[Len(s) + 1 - i]]

EmptyDict == [k \in {} |-> 0]


None == "<None>"

(* dict operations used by the callbacks *)
DictGet(d, k, default) == IF k \in DOMAIN d THEN d[k] ELSE default

DictSet(d, k, v) == (k :> v) @@ d

DictUpdate(d, other) == other @@ d

-----------------------------------------------------------------------------
(* format_node *)

NODE_ATTR ==
    [Script |-> [shape |-> "note"],
     Package |-> [shape |-> "folder"],
     SourceModule |-> [shape |-> "rectangle"],
     BytecodeModule |-> [shape |-> "rectangle"],
     ExtensionModule |-> [shape |-> "parallelogram"],
     BuiltinModule |-> [shape |-> "hexagon"],
     MissingModule |-> [shape |-> "rectangle", color |-> "red"]]

\* A root test that is never true: the emphasis rule is lost.
format_node_no_roots(node, roots) ==
    DictUpdate(EmptyDict, DictGet(NODE_ATTR, node.kind, EmptyDict))

\* node.kind is type(node).__name__; roots is mg.roots().
format_node(node, roots) ==
    LET results0 == EmptyDict
        results1 == IF node \in roots
                    THEN DictSet(DictSet(results0, "penwidth", 2), "root", "true")
                    ELSE results0
    IN  DictUpdate(results1, DictGet(NODE_ATTR, node.kind, EmptyDict))

-----------------------------------------------------------------------------
(* format_edge *)

\* str.startswith
startswith(s, prefix) == IsPrefix(prefix, s)

\* any() where the code has all(): one optional fact is enough to dash.
format_edge_any(source, target, edge) ==
    LET results0 == EmptyDict
        results1 == IF \E e \in edge : e.is_optional
                    THEN DictSet(results0, "style", "dashed")
                    ELSE results0
    IN  IF startswith(source.identifier, target.identifier \o <<".">>)
        THEN DictSet(DictSet(results1, "weight", 10), "arrowhead", "none")
        ELSE results1

format_edge(source, target, edge) ==
    LET results0 == EmptyDict
        results1 == IF \A e \in edge : e.is_optional
                    THEN DictSet(results0, "style", "dashed")
                    ELSE results0
    IN  IF startswith(source.identifier, target.identifier \o <<".">>)
        THEN DictSet(DictSet(results1, "weight", 10), "arrowhead", "none")
        ELSE results1

-----------------------------------------------------------------------------
(* group_nodes.  `clusters` is a dict, which keeps insertion order: a      *)
(* sequence of [key, value] entries with distinct keys; a value is the     *)
(* tuple (dist, "tab", members).                                           *)

ClusterKeys(clusters) == {clusters[i].key : i \in DOMAIN clusters}

\* The body of the for loop, for one node of graph.iter_graph().
group_nodes_step(clusters, node) ==
    IF ~node.is_base
    THEN clusters
    ELSE IF node.distribution = None
    THEN clusters
    ELSE LET dist == node.distribution
             created == IF dist \notin ClusterKeys(clusters)
                        THEN Append(clusters,
                                    [key |-> dist, value |-> <<dist, "tab", <<>>>>])
                        ELSE clusters
         IN  [i \in DOMAIN created |->
                IF created[i].key = dist
                THEN [created[i] EXCEPT !.value[3] = Append(@, node)]
                ELSE created[i]]

RECURSIVE group_nodes_loop(_, _, _)
group_nodes_loop(clusters, nodes, i) ==
    IF i > Len(nodes)
    THEN clusters
    ELSE group_nodes_loop(group_nodes_step(clusters, nodes[i]), nodes, i + 1)

\* Groups come out sorted by name instead of in insertion order.
group_nodes_sorted(nodes) ==
    LET clusters == group_nodes_loop(<<>>, nodes, 1)
        hasA == "A" \in ClusterKeys(clusters)
        posA == CHOOSE j \in DOMAIN clusters : clusters[j].key = "A"
        rest == SelectSeq(clusters, LAMBDA c : c.key # "A")
        ordered == IF hasA THEN <<clusters[posA]>> \o rest ELSE clusters
    IN  [i \in DOMAIN ordered |-> ordered[i].value]

\* iter(clusters.values()): the values in insertion order.
group_nodes(nodes) ==
    LET clusters == group_nodes_loop(<<>>, nodes, 1)
    IN  [i \in DOMAIN clusters |-> clusters[i].value]

-----------------------------------------------------------------------------
(* Applying the callbacks to drawn arguments.  The ReportBuilder state is  *)
(* idle in these specifications.                                           *)

\* No call yet.  opens and outcome record what the environment did in an
\* output_graph call; seen_path is sys.path as the graph saw it in make_graph.
NoCall == [op |-> "none", result |-> "none", serializers |-> <<>>,
           stdout |-> <<>>, stderr |-> <<>>, engine |-> <<>>, seen_path |-> <<>>,
           opens |-> FALSE, outcome |-> "none"]

NoDest == [exists |-> FALSE, content |-> <<>>]

Idle ==
    /\ heap = <<>>
    /\ builders = <<>>
    /\ given = <<>>
    /\ sys_path = <<>>
    /\ dest = NoDest
    /\ last = NoCall

IdleUnchanged == UNCHANGED <<heap, builders, given, sys_path, dest, last>>

\* Class names of nodes: the seven of NODE_ATTR and two it does not list.
Kinds == {"Script", "Package", "SourceModule", "BytecodeModule",
          "ExtensionModule", "BuiltinModule", "MissingModule",
          "NamespacePackage", "AliasNode"}

NodeUniverse == [identifier : {"a", "a.b"}, kind : Kinds]

NodeInputs ==
    [node : NodeUniverse,
     roots : {R \in SUBSET NodeUniverse : Cardinality(R) <= MaxRoots}]

InitNode == Idle /\ input \in NodeInputs /\ output = <<>>

ApplyFormatNode ==
    /\ output = <<>>
    /\ output' = <<format_node(input.node, input.roots)>>
    /\ UNCHANGED input
    /\ IdleUnchanged

SpecNode == InitNode /\ [][ApplyFormatNode]_vars

Identifiers == SeqsUpTo({"a", "."}, MaxIdLen)

Facts == [is_optional : BOOLEAN, n : 1..MaxFacts]

EdgeInputs ==
    [source : [identifier : Identifiers],
     target : [identifier : Identifiers],
     edge : SUBSET Facts]

InitEdge == Idle /\ input \in EdgeInputs /\ output = <<>>

ApplyFormatEdge ==
    /\ output = <<>>
    /\ output' = <<format_edge(input.source, input.target, input.edge)>>
    /\ UNCHANGED input
    /\ IdleUnchanged

SpecEdge == InitEdge /\ [][ApplyFormatEdge]_vars

\* What graph.iter_graph() yields: BaseNode instances, whose distribution is
\* None or a distribution (its name), and objects that are no BaseNode.
NodeShapes ==
    [is_base : {TRUE}, distribution : {None, "A", "B"}]
        \cup [is_base : {FALSE}, distribution : {None}]

Graphs ==
    {[i \in DOMAIN g |-> [identifier |-> i, is_base |-> g[i].is_base,
                          distribution |-> g[i].distribution]] :
        g \in SeqsUpTo(NodeShapes, MaxNodes)}

InitGroup == Idle /\ input \in Graphs /\ output = <<>>

ApplyGroupNodes ==
    /\ output = <<>>
    /\ output' = <<group_nodes(input)>>
    /\ UNCHANGED input
    /\ IdleUnchanged

SpecGroup == InitGroup /\ [][ApplyGroupNodes]_vars

-----------------------------------------------------------------------------
(* ReportBuilder.  An attribute that may be None is a record with an       *)
(* is_none field.  File names are sequences of characters.                 *)

\* stdlib_module_names() of _utilities.
StdlibNames == <<"os", "sys">>

NoFile == [is_none |-> TRUE, name |-> <<>>]

File(name) == [is_none |-> FALSE, name |-> name]

NoGraph == [is_none |-> TRUE, ops |-> <<>>]

\* Truth value of self.output_file: None and "" are false.
Truthy(file) == ~file.is_none /\ file.name # <<>>

\* `excludes or []`: the argument itself unless it is None or empty, and then
\* a new empty list.  Returns the heap and the reference kept in self.excludes.
or_new_list(h, ref) ==
    IF ref = 0 \/ h[ref] = <<>>
    THEN [heap |-> Append(h, <<>>), ref |-> Len(h) + 1]
    ELSE [heap |-> h, ref |-> ref]

\* __init__: returns the heap and the attributes of the new instance.
init(h, args) ==
    LET ex == or_new_list(h, args.excludes)
        extended == IF args.exclude_stdlib
                    THEN [ex.heap EXCEPT ![ex.ref] = @ \o StdlibNames]
                    ELSE ex.heap
    IN  [heap |-> extended,
         self |-> [output_file |-> args.output_file,
                   output_format |-> args.output_format,
                   modules |-> args.modules,
                   scripts |-> args.scripts,
                   distributions |-> args.distributions,
                   excludes |-> ex.ref,
                   paths |-> args.paths,
                   exclude_stdlib |-> args.exclude_stdlib,
                   mg |-> NoGraph]]

(* make_graph *)

\* for p in self.paths[::-1]: sys.path.insert(0, p)
RECURSIVE insert_paths(_, _)
insert_paths(reversed, path) ==
    IF reversed = <<>>
    THEN path
    ELSE insert_paths(Tail(reversed), <<Head(reversed)>> \o path)

\* saved_sys_path() of _utilities, on leaving the with block by return or by
\* exception: sys.path is again what it was on entry.
saved_sys_path_exit(orig, current) == orig

\* The insertions without the with block around them.
make_graph_sys_path_unscoped(paths, path) == insert_paths(Reverse(paths), path)

\* sys.path after make_graph, given the paths and sys.path before.
make_graph_sys_path(paths, path) ==
    saved_sys_path_exit(path, insert_paths(Reverse(paths), path))

Call(op, names) == [op |-> op, names |-> names, raised |-> FALSE]

Calls(op, entries) == [i \in DOMAIN entries |-> Call(op, <<entries[i]>>)]

\* The modules are added before the exclusions are registered.
make_graph_calls_excludes_late(self, h) ==
    Calls("add_module", self.modules)
        \o <<Call("add_excludes", h[self.excludes])>>
        \o Calls("add_script", self.scripts)
        \o Calls("add_distribution", self.distributions)

\* The calls make_graph makes on the new ModuleGraph when none raises.
make_graph_calls(self, h) ==
    <<Call("add_excludes", h[self.excludes])>>
        \o Calls("add_module", self.modules)
        \o Calls("add_script", self.scripts)
        \o Calls("add_distribution", self.distributions)

\* make_graph where call number failAt raises (0: none does): self.mg is a
\* new graph with the calls made on it, the last of which raised.
make_graph(self, h, path, failAt) ==
    LET planned == make_graph_calls(self, h)
        made == IF failAt = 0
                THEN planned
                ELSE [SubSeq(planned, 1, failAt) EXCEPT ![failAt].raised = TRUE]
    IN  [mg |-> [is_none |-> FALSE, ops |-> made],
         result |-> IF failAt = 0 THEN "ok" ELSE "Error",
         seen_path |-> insert_paths(Reverse(self.paths), path),
         sys_path |-> make_graph_sys_path(self.paths, path)]

(* print_graph and output_graph *)

\* Positional parameters of print_graph besides self.
PrintGraphParams == 1

\* What a serializer leaves on its stream: the document, or part of it when
\* it raised.
Written(format, outcome) == IF outcome = "ok" THEN <<format>> ELSE <<"partial">>

\* print_graph(file); outcome is how the serializer ends.
print_graph(self, outcome) ==
    IF self.output_format = "html"
    THEN [result |-> outcome, serializers |-> <<"export_to_html">>,
          written |-> Written("html", outcome)]
    ELSE IF self.output_format = "dot"
    THEN [result |-> outcome, serializers |-> <<"export_to_dot">>,
          written |-> Written("dot", outcome)]
    ELSE [result |-> "AssertionError", serializers |-> <<>>, written |-> <<>>]

\* The call self.print_graph(*positional): Python raises TypeError when the
\* number of arguments is not the number of parameters.
call_print_graph(self, positional, outcome) ==
    IF Len(positional) # PrintGraphParams
    THEN [result |-> "TypeError", serializers |-> <<>>, written |-> <<>>]
    ELSE print_graph(self, outcome)

\* No except clause: an OSError leaves output_graph as it is.
output_graph_no_handler(self, file, opens, outcome) ==
    IF self.output_file.is_none
    THEN LET r == call_print_graph(
                      self, <<"sys.stdout", "self.output_format", "self.mg">>, outcome)
         IN  [result |-> r.result, serializers |-> r.serializers,
              stdout |-> r.written, stderr |-> <<>>, dest |-> file]
    ELSE IF ~(opens /\ self.output_file.name # <<>>)
    THEN [result |-> "OSError", serializers |-> <<>>,
          stdout |-> <<>>, stderr |-> <<>>, dest |-> file]
    ELSE LET r == call_print_graph(self, <<"fp">>, outcome)
         IN  [result |-> r.result, serializers |-> r.serializers,
              stdout |-> <<>>, stderr |-> <<>>,
              dest |-> [exists |-> TRUE, content |-> r.written]]

\* output_graph; file is the destination on disk before the call, opens
\* tells whether open(self.output_file, "w") succeeds, outcome how the
\* serializer ends.  open("") always fails.
output_graph(self, file, opens, outcome) ==
    IF self.output_file.is_none
    THEN LET r == call_print_graph(
                      self, <<"sys.stdout", "self.output_format", "self.mg">>, outcome)
         IN  [result |-> r.result, serializers |-> r.serializers,
              stdout |-> r.written, stderr |-> <<>>, dest |-> file]
    ELSE IF ~(opens /\ self.output_file.name # <<>>)
    THEN [result |-> "SystemExit(1)", serializers |-> <<>>,
          stdout |-> <<>>, stderr |-> <<"OSError">>, dest |-> file]
    ELSE LET r == call_print_graph(self, <<"fp">>, outcome)
             caught == r.result = "OSError"
         IN  [result |-> IF caught THEN "SystemExit(1)" ELSE r.result,
              serializers |-> r.serializers,
              stdout |-> <<>>,
              stderr |-> IF caught THEN <<"OSError">> ELSE <<>>,
              dest |-> [exists |-> TRUE, content |-> r.written]]

(* render_graph *)

RenderFormats == {"html", "ps", "pdf", "png", "gif", "jpg", "json", "svg"}

\* os.path.splitext(p)[0]: p up to its last dot, unless only dots precede
\* that dot in the last path component.
splitext_root(p) ==
    LET seps == {i \in DOMAIN p : p[i] = "/"}
        start == IF seps = {} THEN 1 ELSE (CHOOSE i \in seps : \A j \in seps : j <= i) + 1
        dots == {i \in start..Len(p) : p[i] = "."}
    IN  IF dots = {}
        THEN p
        ELSE LET d == CHOOSE i \in dots : \A j \in dots : j <= i
             IN  IF \E j \in start..(d - 1) : p[j] # "."
                 THEN SubSeq(p, 1, d - 1)
                 ELSE p

\* The engine runs whatever the output format is.
render_graph_any_format(self, layout, format) ==
    IF format \notin RenderFormats
    THEN [result |-> "AssertionError", engine |-> <<>>]
    ELSE IF Truthy(self.output_file)
    THEN [result |-> "ok",
          engine |-> <<[layout |-> layout, format |-> format,
                        render_root |-> splitext_root(self.output_file.name),
                        input |-> self.output_file.name]>>]
    ELSE [result |-> "ok", engine |-> <<>>]

\* render_graph; engine is the os.system commands it issued.
render_graph(self, layout, format) ==
    IF format \notin RenderFormats
    THEN [result |-> "AssertionError", engine |-> <<>>]
    ELSE IF self.output_format = "dot" /\ Truthy(self.output_file)
    THEN [result |-> "ok",
          engine |-> <<[layout |-> layout, format |-> format,
                        render_root |-> splitext_root(self.output_file.name),
                        input |-> self.output_file.name]>>]
    ELSE [result |-> "ok", engine |-> <<>>]

-----------------------------------------------------------------------------
(* The calls on ReportBuilder instances as actions.  Each call is one      *)
(* step: the program is single-threaded and synchronous.                   *)

\* How a serializer may end: it returns, or a write fails; handed None for
\* the graph (make_graph was never called) it may also fail otherwise.
SerializerOutcomes(self) ==
    {"ok", "OSError"} \cup (IF self.mg.is_none THEN {"Error"} ELSE {})

MakeGraph ==
    \E b \in DOMAIN builders :
    \E failAt \in 0..(MaxEntries + 1) :
        LET self == builders[b]
            r == make_graph(self, heap, sys_path, failAt)
        IN  /\ failAt <= Len(make_graph_calls(self, heap))
            /\ builders' = [builders EXCEPT ![b].mg = r.mg]
            /\ sys_path' = r.sys_path
            /\ last' = [NoCall EXCEPT !.op = "make_graph", !.result = r.result,
                                      !.seen_path = r.seen_path]
            /\ UNCHANGED <<heap, given, dest, input, output>>

OutputGraph ==
    \E b \in DOMAIN builders :
    \E opens \in BOOLEAN :
    \E outcome \in SerializerOutcomes(builders[b]) :
        LET r == output_graph(builders[b], dest, opens, outcome)
        IN  /\ dest' = r.dest
            /\ last' = [NoCall EXCEPT !.op = "output_graph", !.result = r.result,
                                      !.serializers = r.serializers,
                                      !.stdout = r.stdout, !.stderr = r.stderr,
                                      !.opens = opens, !.outcome = outcome]
            /\ UNCHANGED <<heap, builders, given, sys_path, input, output>>

RenderGraph ==
    \E b \in DOMAIN builders :
    \E layout \in {"dot"} :
    \E format \in {"pdf", "bmp"} :
        LET r == render_graph(builders[b], layout, format)
        IN  /\ last' = [NoCall EXCEPT !.op = "render_graph", !.result = r.result,
                                      !.engine = r.engine]
            /\ UNCHANGED <<heap, builders, given, sys_path, dest, input, output>>

\* ReportBuilder(...) with excludes None (0) or a list the caller holds.
Construct(args) ==
    LET r == init(heap, args)
    IN  /\ Len(builders) < MaxBuilders
        /\ heap' = r.heap
        /\ builders' = Append(builders, r.self)
        /\ given' = Append(given, IF args.excludes = 0 THEN <<>> ELSE heap[args.excludes])
        /\ last' = [NoCall EXCEPT !.op = "__init__", !.result = "ok"]
        /\ UNCHANGED <<sys_path, dest, input, output>>

\* The modules, scripts and distributions of a configuration.
Entries ==
    {e \in [modules : SeqsUpTo({"a", "b"}, MaxEntries),
            scripts : SeqsUpTo({"s"}, MaxEntries),
            distributions : SeqsUpTo({"d"}, MaxEntries)] :
        Len(e.modules) + Len(e.scripts) + Len(e.distributions) <= MaxEntries}

OutputFiles == {NoFile, File(<<>>), File(<<"g", ".", "d">>)}

OutputFormats == {"dot", "html", "xml"}

SearchPaths == {<<>>, <<"/p", "/q">>}

SysPaths == {<<"/lib">>, <<"/p", "/lib">>}

\* The lists a caller may hold and pass as excludes.
CallerLists == {<<>>, <<"x">>}

Args ==
    {[output_file |-> f, output_format |-> fmt, modules |-> e.modules,
      scripts |-> e.scripts, distributions |-> e.distributions,
      excludes |-> ex, paths |-> ps, exclude_stdlib |-> std] :
        f \in OutputFiles, fmt \in OutputFormats, e \in Entries,
        ex \in {0, 1}, ps \in SearchPaths, std \in BOOLEAN}

\* One ReportBuilder, just constructed.
Init ==
    /\ \E callerList \in CallerLists :
       \E args \in Args :
          LET r == init(<<callerList>>, args)
          IN  /\ args.excludes = 0 => callerList = <<>>
              /\ heap = r.heap
              /\ builders = <<r.self>>
              /\ given = <<IF args.excludes = 0 THEN <<>> ELSE callerList>>
    /\ sys_path \in SysPaths
    /\ dest = NoDest
    /\ last = NoCall
    /\ input = <<>>
    /\ output = <<>>

Next == MakeGraph \/ OutputGraph \/ RenderGraph

Spec == Init /\ [][Next]_vars

\* Several ReportBuilder constructions by one caller, who holds one list for
\* the excludes argument.
CtorArgs ==
    {a \in Args : /\ a.output_file = NoFile /\ a.output_format = "dot"
                  /\ a.modules = <<"a">> /\ a.scripts = <<>>
                  /\ a.distributions = <<>> /\ a.paths = <<>>}

InitCtor ==
    /\ \E callerList \in CallerLists : heap = <<callerList>>
    /\ builders = <<>>
    /\ given = <<>>
    /\ sys_path \in SysPaths
    /\ dest = NoDest
    /\ last = NoCall
    /\ input = <<>>
    /\ output = <<>>

NextCtor == (\E args \in CtorArgs : Construct(args)) \/ MakeGraph

SpecCtor == InitCtor /\ [][NextCtor]_vars

-----------------------------------------------------------------------------
(* Claims about the callbacks *)

ExpectedShape(kind) ==
    CASE kind = "Script" -> "note"
      [] kind = "Package" -> "folder"
      [] kind \in {"SourceModule", "BytecodeModule", "MissingModule"} -> "rectangle"
      [] kind = "ExtensionModule" -> "parallelogram"
      [] kind = "BuiltinModule" -> "hexagon"
      [] OTHER -> "no shape"

\* C8: format_node returns exactly the root attributes (penwidth = 2,
\* root = "true") iff the node is in graph.roots(), together with exactly the
\* shape attributes of the node's kind (MissingModule also color = "red"); an
\* unregistered kind gets no shape attributes; nothing else is returned.
C8_FormatNodeExact ==
    output # <<>> =>
        LET r == output[1]
            node == input.node
            isRoot == node \in input.roots
            known == ExpectedShape(node.kind) # "no shape"
        IN  /\ DOMAIN r = (IF isRoot THEN {"penwidth", "root"} ELSE {})
                            \cup (IF known THEN {"shape"} ELSE {})
                            \cup (IF node.kind = "MissingModule" THEN {"color"} ELSE {})
            /\ isRoot => r["penwidth"] = 2 /\ r["root"] = "true"
            /\ known => r["shape"] = ExpectedShape(node.kind)
            /\ node.kind = "MissingModule" => r["color"] = "red"

\* A root of kind MissingModule was formatted: both rules contributed.
C8_Witness ==
    /\ output # <<>>
    /\ input.node \in input.roots
    /\ input.node.kind = "MissingModule"
    /\ DOMAIN output[1] = {"penwidth", "root", "shape", "color"}

\* C6: format_edge returns style = "dashed" iff no fact of the edge is
\* mandatory (so also for no facts), weight = 10 and arrowhead = "none" iff
\* the source identifier is the target identifier, a dot, and any rest; the
\* two rules are independent and nothing else is returned.
C6_FormatEdgeExact ==
    output # <<>> =>
        LET r == output[1]
            optional == ~ \E e \in input.edge : ~e.is_optional
            contained == \E rest \in Identifiers :
                            input.source.identifier
                                = input.target.identifier \o <<".">> \o rest
        IN  /\ DOMAIN r = (IF optional THEN {"style"} ELSE {})
                            \cup (IF contained THEN {"weight", "arrowhead"} ELSE {})
            /\ optional => r["style"] = "dashed"
            /\ contained => r["weight"] = 10 /\ r["arrowhead"] = "none"

\* Optional facts only, from a.a to a: dashed and containment together.
C6_Witness ==
    /\ output # <<>>
    /\ input.source.identifier = <<"a", ".", "a">>
    /\ input.target.identifier = <<"a">>
    /\ input.edge # {}
    /\ \A e \in input.edge : e.is_optional
    /\ DOMAIN output[1] = {"style", "weight", "arrowhead"}

\* Index of the first BaseNode of the sequence owned by distribution d.
FirstOccurrence(nodes, d) ==
    CHOOSE i \in DOMAIN nodes :
        /\ nodes[i].is_base /\ nodes[i].distribution = d
        /\ \A j \in 1..(i - 1) : ~(nodes[j].is_base /\ nodes[j].distribution = d)

-----------------------------------------------------------------------------
(* Claims about ReportBuilder *)

\* C1: sys.path after make_graph, whether it returned or a call on the graph
\* raised, is what it was before the call; no other call changes it.
C1_SysPathRestored == [][sys_path' = sys_path]_vars

\* make_graph failed with search paths configured: the graph saw the
\* extended sys.path, which is not the one in place now.
C1_Witness ==
    /\ last.op = "make_graph"
    /\ last.result = "Error"
    /\ builders[1].paths # <<>>
    /\ last.seen_path = builders[1].paths \o sys_path
    /\ last.seen_path # sys_path

\* C2: with no destination file, output_graph on a populated builder writes
\* the report in the configured format ("dot" or "html") to standard output
\* through one serializer call and returns normally.
C2_StdoutExport ==
    \A b \in DOMAIN builders :
        ( /\ last.op = "output_graph"
          /\ builders[b].output_file.is_none
          /\ ~builders[b].mg.is_none
          /\ builders[b].output_format \in {"dot", "html"}
          /\ last.outcome = "ok" )
        => /\ last.result = "ok"
           /\ last.stdout = <<builders[b].output_format>>
           /\ Len(last.serializers) = 1

\* An OSError occurred in the last output_graph call: opening the destination
\* failed, or the serializer was called and its write failed.
OSErrorOccurred(self) ==
    /\ last.op = "output_graph"
    /\ ~self.output_file.is_none
    /\ \/ ~last.opens
       \/ self.output_file.name = <<>>
       \/ last.outcome = "OSError" /\ self.output_format \in {"dot", "html"}

\* C3: when opening or writing the destination of output_graph raises
\* OSError, the error is written to the error stream and the call ends in
\* SystemExit(1); no serializer ran twice and nothing went to standard output.
C3_OSErrorExits ==
    \A b \in DOMAIN builders :
        OSErrorOccurred(builders[b])
        => /\ last.result = "SystemExit(1)"
           /\ last.stderr = <<"OSError">>
           /\ Len(last.serializers) <= 1
           /\ last.stdout = <<>>

\* The destination opened and the dot serializer's write failed.
C3_Witness ==
    /\ last.op = "output_graph"
    /\ last.opens
    /\ last.outcome = "OSError"
    /\ last.serializers = <<"export_to_dot">>
    /\ last.result = "SystemExit(1)"
    /\ dest.exists

\* C4: an output_graph call that reaches the format dispatch (its
\* destination is standard output or a file that opened) with a format other
\* than "dot" and "html" calls no serializer, ends in AssertionError and
\* prints nothing to the error stream; with "dot" or "html" it calls exactly
\* one serializer, once.
C4_FormatDispatch ==
    \A b \in DOMAIN builders :
        ( /\ last.op = "output_graph"
          /\ \/ builders[b].output_file.is_none
             \/ last.opens /\ builders[b].output_file.name # <<>> )
        => IF builders[b].output_format \in {"dot", "html"}
           THEN last.serializers
                    \in {<<"export_to_dot">>, <<"export_to_html">>}
           ELSE /\ last.serializers = <<>>
                /\ last.result = "AssertionError"
                /\ last.stderr = <<>>

\* C5 as claimed: the layout engine runs only when the format is "dot" and
\* output_graph has written the description to the destination file.
C5_EngineAfterWrite ==
    \A b \in DOMAIN builders :
        last.engine # <<>>
        => /\ builders[b].output_format = "dot"
           /\ dest.exists
           /\ dest.content = <<"dot">>

\* C5 as amended: the layout engine is run only by render_graph, once, on the
\* configured destination, and only when the format is "dot" and a non-empty
\* destination path is configured; with "html" or without a destination no
\* external process is started.
C5_EngineOnlyDotFile ==
    \A b \in DOMAIN builders :
        /\ last.engine # <<>>
           => /\ last.op = "render_graph"
              /\ builders[b].output_format = "dot"
              /\ ~builders[b].output_file.is_none
              /\ builders[b].output_file.name # <<>>
              /\ Len(last.engine) = 1
              /\ last.engine[1].input = builders[b].output_file.name
        /\ ( \/ builders[b].output_format = "html"
             \/ builders[b].output_file.is_none ) => last.engine = <<>>

\* render_graph started the engine although no description was ever written.
C5_Witness ==
    /\ last.op = "render_graph"
    /\ last.engine # <<>>
    /\ ~dest.exists

\* The add-calls a configuration asks for, in order.
ConfiguredAdds(self) ==
    [i \in DOMAIN self.modules |-> <<"add_module", self.modules[i]>>]
        \o [i \in DOMAIN self.scripts |-> <<"add_script", self.scripts[i]>>]
        \o [i \in DOMAIN self.distributions |->
                <<"add_distribution", self.distributions[i]>>]

C10_StdlibOnce ==
    \A b \in DOMAIN builders :
        ~builders[b].mg.is_none =>
            builders[b].mg.ops[1].names =
                given[b] \o (IF builders[b].exclude_stdlib THEN StdlibNames ELSE <<>>)

=============================================================================
